---- MODULE Spec2Model ----
(***************************************************************************)
(* A model of src/platforms/gametime.ts: the module-level run state, the   *)
(* status accessor getStatusMessage() and the polling tick check().        *)
(*                                                                         *)
(* check() is an async function.  Between two awaits JavaScript runs a     *)
(* segment to completion, so each segment is one action:                   *)
(*   Start          lines 88-92, up to the await of the fetch              *)
(*   FetchRejects   the awaited fetch/json promise rejects (line 92)       *)
(*   FetchResolves  lines 92-211, up to a return or the await of the send  *)
(*   SendSettles    the awaited sendPushAlert promise settles (211-215)    *)
(* Money is kept in minor units (cents): x / 100 is monotone and exact at  *)
(* the values compared, so every comparison of calculateTotalPrice values  *)
(* is the comparison of the cent sums.  Time is in minutes; the clock      *)
(* moves in multiples of ClockStep.  Strings that a regular expression     *)
(* reads are sequences of one-character strings.                           *)
(***************************************************************************)
EXTENDS Integers, Sequences, FiniteSets

VARIABLES
    AVAILABLE_SEATS,    \* line 59: the qualifying listings of the tick
    LAST_TEXT_SENT_AT,  \* line 60
    ERROR_COUNT,        \* line 61
    ERROR,              \* line 62
    STATUS_MESSAGE,     \* line 63: a sequence of message parts
    pricesSeen,         \* line 30: lowest qualifying price per tick, in cents
    pc,                 \* per invocation of check(): "idle", "fetch", "send"
    now,                \* Date.now(), in minutes
    sentAt,             \* the times at which sendPushAlert was called
    tick,               \* history: what the last resumed tick did
    failStreak,         \* history: failed ticks since the last successful one
    prevStatus,         \* history: getStatusMessage() when the tick started
    lastRead            \* the value the last getStatusMessage() call returned

vars == <<AVAILABLE_SEATS, LAST_TEXT_SENT_AT, ERROR_COUNT, ERROR, STATUS_MESSAGE,
          pricesSeen, pc, now, sentAt, tick, failStreak, prevStatus, lastRead>>

----------------------------------------------------------------------------
(* Configuration, lines 11-24.                                             *)

SEATS_TOGETHER == 2
MAX_ALL_IN_PRICE_PER_SEAT == 350
MAX_RETURN_LIST == 10
MIN_ERROR_COUNT == 4
TEXT_MAX_FREQUENCY_MINS == 15

\* /^PR/ and /^1/: each pattern is an anchored literal, kept as its prefix.
SECTIONS_REGEX == << <<"P", "R">>, <<"1">> >>

\* /^Premier/, /^Loge/, /^Baseline/
SECTION_GROUP_NAMES ==
    << <<"P", "r", "e", "m", "i", "e", "r">>,
       <<"L", "o", "g", "e">>,
       <<"B", "a", "s", "e", "l", "i", "n", "e">> >>

----------------------------------------------------------------------------
(* Bounds of the model.                                                    *)

MaxListings == 1    \* listings in a generated snapshot
MaxHist == 3        \* entries of pricesSeen
MaxFails == 5       \* consecutive failed ticks
MaxClock == 3       \* clock steps after the start of the process
ClockStep == 5      \* minutes per clock step

\* The invocations of check() that can be in progress at once.  A scheduler
\* that waits for the previous call uses the first only.
Calls == {1, 2}

SequentialCalls == {1}

----------------------------------------------------------------------------
(* Pure functions.                                                         *)

\* RegExp.prototype.test for an anchored literal pattern /^p/.
RegexTest(p, s) ==
    /\ Len(s) >= Len(p)
    /\ \A i \in 1..Len(p) : s[i] = p[i]

\* Array.prototype.some over a list of patterns.
SomeMatch(patterns, s) ==
    \E i \in 1..Len(patterns) : RegexTest(patterns[i], s)

\* calculateTotalPrice, times 100 (the division by 100 is left to FmtPrice
\* and to the comparisons, which scale the other side).
calculateTotalPrice(l) ==
    l.price.prefee + l.price.total + l.price.sales_tax

\* fmtPrice of a price in cents: whole dollars, halves rounded up
\* (maximumFractionDigits: 0); the result n stands for the text "$n".
fmtPrice(cents) == (cents + 50) \div 100

\* Array.prototype.includes
Includes(arr, v) == \E i \in 1..Len(arr) : arr[i] = v

\* A filter callback without the test of the lots at line 111.
PassesFilterWithoutLots(l) ==
    /\ ~(Len(l.seats) < SEATS_TOGETHER)
    /\ ~(/\ ~SomeMatch(SECTIONS_REGEX, l.section)
         /\ ~SomeMatch(SECTION_GROUP_NAMES, l.section_group))
    /\ ~(calculateTotalPrice(l) > MAX_ALL_IN_PRICE_PER_SEAT * 100)

\* The filter callback, lines 106-125.
PassesFilter(l) ==
    /\ ~(Len(l.seats) < SEATS_TOGETHER)
    /\ Includes(l.lots, SEATS_TOGETHER)
    /\ ~(/\ ~SomeMatch(SECTIONS_REGEX, l.section)
         /\ ~SomeMatch(SECTION_GROUP_NAMES, l.section_group))
    /\ ~(calculateTotalPrice(l) > MAX_ALL_IN_PRICE_PER_SEAT * 100)

\* Array.prototype.filter
RECURSIVE FilterSeq(_)
FilterSeq(s) ==
    IF s = << >> THEN << >>
    ELSE IF PassesFilter(Head(s)) THEN <<Head(s)>> \o FilterSeq(Tail(s))
    ELSE FilterSeq(Tail(s))

\* A comparator that returns bPrice - aPrice.
CompareDescending(a, b) == calculateTotalPrice(b) - calculateTotalPrice(a)

\* The sort comparator, lines 126-130: negative when a goes before b.
Compare(a, b) == calculateTotalPrice(a) - calculateTotalPrice(b)

\* A sort that is not stable: x goes before the elements it ties with.
RECURSIVE InsertSortedBeforeTies(_, _)
InsertSortedBeforeTies(x, s) ==
    IF s = << >> THEN <<x>>
    ELSE IF Compare(x, Head(s)) <= 0 THEN <<x>> \o s
    ELSE <<Head(s)>> \o InsertSortedBeforeTies(x, Tail(s))

\* Insert x after every element that does not compare greater than it.
RECURSIVE InsertSorted(_, _)
InsertSorted(x, s) ==
    IF s = << >> THEN <<x>>
    ELSE IF Compare(x, Head(s)) < 0 THEN <<x>> \o s
    ELSE <<Head(s)>> \o InsertSorted(x, Tail(s))

\* Array.prototype.sort, which is stable: insertion from the left.
RECURSIVE StableSort(_)
StableSort(s) ==
    IF s = << >> THEN << >>
    ELSE InsertSorted(s[Len(s)], StableSort(SubSeq(s, 1, Len(s) - 1)))

\* Array.prototype.slice(0, n)
Slice(s, n) == SubSeq(s, 1, IF Len(s) < n THEN Len(s) ELSE n)

\* Lines 105-131: what the try block assigns to AVAILABLE_SEATS.
Qualifying(listings) == Slice(StableSort(FilterSeq(listings)), MAX_RETURN_LIST)

\* Math.min(...arr) of a non-empty array.
Min(arr) == CHOOSE m \in {arr[i] : i \in 1..Len(arr)} :
                \A j \in 1..Len(arr) : m <= arr[j]

----------------------------------------------------------------------------
(* Listings and fetched documents: the inputs of a tick.                   *)

\* The fields listingObj requires, lines 32-49 (face_value may be null).
ListingFields ==
    {"price", "lots", "seats", "id", "row", "section", "section_group"}

Listing(id, prefee, total, tax, lots, seats, row, section, group) ==
    [id |-> id,
     price |-> [prefee |-> prefee, total |-> total, sales_tax |-> tax],
     lots |-> lots, seats |-> seats, row |-> row,
     section |-> section, section_group |-> group]

Lower == <<"L", "o", "w", "e", "r">>
Upper == <<"U", "p", "p", "e", "r">>
Premier == <<"P", "r", "e", "m", "i", "e", "r">>
LogeBox == <<"L", "o", "g", "e", " ", "B", "o", "x">>

\* $300.00 in section 101: passes by its section code.
ListingA == Listing("a", 25000, 4000, 1000, <<1, 2>>, <<"*", "*">>, "A",
                    <<"1", "0", "1">>, Lower)
\* $249.50 in section PR5.
ListingB == Listing("b", 20000, 4000, 950, <<2, 4>>, <<"*", "*", "*", "*">>, "B",
                    <<"P", "R", "5">>, Premier)
\* $350.00, exactly the maximum, in section 305: passes by its group only.
ListingC == Listing("c", 30000, 4000, 1000, <<2>>, <<"*", "*">>, "C",
                    <<"3", "0", "5">>, LogeBox)
\* $300.00 again, in section 112: ties with ListingA.
ListingD == Listing("d", 26000, 3000, 1000, <<2>>, <<"*", "*", "*">>, "D",
                    <<"1", "1", "2">>, Lower)
\* $350.01: one cent above the maximum.
ListingE == Listing("e", 30000, 4000, 1001, <<2>>, <<"*", "*">>, "E",
                    <<"1", "2", "0">>, Lower)
\* A single seat, though 2 is among its lots.
ListingF == Listing("f", 15000, 4000, 1000, <<1, 2>>, <<"*">>, "F",
                    <<"1", "0", "1">>, Lower)
\* Three seats sold as 1 or 3.
ListingG == Listing("g", 15000, 4000, 1000, <<1, 3>>, <<"*", "*", "*">>, "G",
                    <<"1", "0", "1">>, Lower)
\* Section 2PR of group Upper: no pattern matches at the start.
ListingH == Listing("h", 15000, 4000, 1000, <<2>>, <<"*", "*">>, "H",
                    <<"2", "P", "R">>, Upper)

Listings == {ListingA, ListingB, ListingC, ListingD,
             ListingE, ListingF, ListingG, ListingH}

\* A listing as fetched: its value and the fields that have the schema's type.
Raw(l) == [present |-> ListingFields, data |-> l]

\* The listings of the snapshots a tick fetches.
TickListings == {ListingA, ListingB, ListingC, ListingE}

\* Sequences of distinct listings, in Object.values order, and one snapshot
\* that the sort has to reorder.
ListingSeqs ==
    UNION {{s \in [1..n -> TickListings] : \A i, j \in 1..n : i # j => s[i] # s[j]}
           : n \in 0..MaxListings}
    \cup {<<ListingA, ListingB>>}

ValidDocuments ==
    {[display_groups |-> TRUE, listings |-> [i \in 1..Len(s) |-> Raw(s[i])]]
     : s \in ListingSeqs}

\* A document without display_groups, and one whose listing has no row.
InvalidDocuments ==
    {[display_groups |-> FALSE, listings |-> <<Raw(ListingA)>>],
     [display_groups |-> TRUE,
      listings |-> <<[present |-> ListingFields \ {"row"}, data |-> ListingB]>>]}

Documents == ValidDocuments \cup InvalidDocuments

\* Twelve listings that pass the filter, two more than MAX_RETURN_LIST, the
\* dearest first; the second and the third tie at the price where the list
\* is cut.
BulkPrices ==
    <<31200, 31000, 31000, 30950, 30900, 30800,
      30700, 30600, 30500, 30400, 30300, 30200>>

BulkIds ==
    <<"k01", "k02", "k03", "k04", "k05", "k06",
      "k07", "k08", "k09", "k10", "k11", "k12">>

BulkListing(i) ==
    Listing(BulkIds[i], BulkPrices[i] - 5000, 4000, 1000, <<2>>, <<"*", "*">>,
            "K", <<"1", "3", "0">>, Lower)

BulkListings == [i \in 1..Len(BulkPrices) |-> BulkListing(i)]

AllListings ==
    <<ListingA, ListingB, ListingC, ListingD,
      ListingE, ListingF, ListingG, ListingH>>

\* The snapshots for the filter and the sort: short sequences of distinct
\* listings of every kind, a tie in both orders, a pair the sort has to
\* swap, all eight kinds at once, and the twelve.
FilterListingSeqs ==
    UNION {{s \in [1..n -> Listings] : \A i, j \in 1..n : i # j => s[i] # s[j]}
           : n \in 0..MaxListings}
    \cup {<<ListingA, ListingD>>, <<ListingD, ListingA>>, <<ListingC, ListingB>>,
          AllListings, BulkListings}

FilterDocuments ==
    {[display_groups |-> TRUE, listings |-> [i \in 1..Len(s) |-> Raw(s[i])]]
     : s \in FilterListingSeqs}

\* outputSchema.safeParse, lines 53-57 and 95.
safeParse(doc) ==
    [success |-> /\ doc.display_groups
                 /\ \A i \in 1..Len(doc.listings) :
                        ListingFields \subseteq doc.listings[i].present,
     data |-> [listings |-> [i \in 1..Len(doc.listings) |-> doc.listings[i].data]]]

----------------------------------------------------------------------------
(* The status text, as a sequence of parts.                                *)

NO_SEATS == <<[kind |-> "NO_SEATS"]>>

ERROR_TEXT == <<[kind |-> "ERROR"]>>

\* Lines 160-163.
Header == [kind |-> "header", seats |-> SEATS_TOGETHER,
           each |-> fmtPrice(MAX_ALL_IN_PRICE_PER_SEAT * 100)]

\* Lines 176-178.
Callout(lowestPrice) == [kind |-> "callout", price |-> fmtPrice(lowestPrice)]

\* Lines 150-158: one line of the readout.
ReadoutLine(l) ==
    [kind |-> "line", section |-> l.section, row |-> l.row,
     each |-> fmtPrice(calculateTotalPrice(l)),
     total |-> fmtPrice(calculateTotalPrice(l) * SEATS_TOGETHER)]

\* A readout that lists the seats from the last to the first.
ReadoutReversed(seats) ==
    [i \in 1..Len(seats) |-> ReadoutLine(seats[Len(seats) + 1 - i])]

\* Lines 150-158 and 197-199: the lines of the readout.
Readout(seats) == [i \in 1..Len(seats) |-> ReadoutLine(seats[i])]

\* Lines 65-67.
getStatusMessage == IF ERROR THEN ERROR_TEXT ELSE STATUS_MESSAGE

\* A comparison at line 175 that takes a price equal to the lowest seen.
TrendWithTies(history, lowestPrice) ==
    IF Len(history) = 0 THEN "NEW_LOW"
    ELSE IF lowestPrice <= Min(history) THEN "NEW_LOW"
    ELSE IF lowestPrice < history[Len(history)] THEN "DECREASED"
    ELSE IF lowestPrice > history[Len(history)] THEN "INCREASED"
    ELSE "UNCHANGED"

\* Branches in another order: the comparison with the last price first.
TrendLastFirst(history, lowestPrice) ==
    IF Len(history) = 0 THEN "NEW_LOW"
    ELSE IF lowestPrice < history[Len(history)] THEN "DECREASED"
    ELSE IF lowestPrice < Min(history) THEN "NEW_LOW"
    ELSE IF lowestPrice > history[Len(history)] THEN "INCREASED"
    ELSE "UNCHANGED"

\* Lines 167-194: the branch taken for the lowest price against the history
\* as it was before the push.
Trend(history, lowestPrice) ==
    IF Len(history) = 0 THEN "NEW_LOW"
    ELSE IF lowestPrice < Min(history) THEN "NEW_LOW"
    ELSE IF lowestPrice < history[Len(history)] THEN "DECREASED"
    ELSE IF lowestPrice > history[Len(history)] THEN "INCREASED"
    ELSE "UNCHANGED"

\* Line 202 without the conversion of the minutes to milliseconds: only a
\* text sent at the same instant counts as recent.
SentRecentlyUnscaled(t, last) == t - last < 1

\* Line 202: a text was sent within the last TEXT_MAX_FREQUENCY_MINS minutes.
SentRecently(t, last) == t - last < TEXT_MAX_FREQUENCY_MINS

----------------------------------------------------------------------------
(* The state machine.                                                      *)

\* Date.now() when the process starts: later than one notify interval
\* after the epoch, at which LAST_TEXT_SENT_AT = 0 lies.
StartOfProcess == TEXT_MAX_FREQUENCY_MINS

EndOfClock == StartOfProcess + MaxClock * ClockStep

NoRead == << >>

NoTick ==
    [kind |-> "none", completion |-> "none", trend |-> "NONE", first |-> FALSE,
     appended |-> FALSE, sent |-> FALSE, throttled |-> FALSE, empty |-> FALSE,
     send |-> "none", listings |-> << >>]

\* The record of a tick that starts from tick record t: the outcome of the
\* last send is kept until the next send.
NewTick(t) == [NoTick EXCEPT !.send = t.send]

Init ==
    /\ AVAILABLE_SEATS = << >>
    /\ LAST_TEXT_SENT_AT = 0
    /\ ERROR_COUNT = 0
    /\ ERROR = FALSE
    /\ STATUS_MESSAGE = NO_SEATS
    /\ pricesSeen = << >>
    /\ pc = [c \in Calls |-> "idle"]
    /\ now = StartOfProcess
    /\ sentAt = << >>
    /\ tick = NoTick
    /\ failStreak = 0
    /\ prevStatus = NO_SEATS
    /\ lastRead = NoRead

NoneRunning == \A c \in Calls : pc[c] = "idle"

\* A check() that forgets line 89.
StatusKeptAtStart(old) == old

\* Line 89: the status text check() starts from.
StatusAtStart(old) == NO_SEATS

\* Line 90: the error flag check() starts from.
ErrorAtStart(old) == FALSE

\* A check() without line 143.
ErrorCountKept(n) == n

\* Line 143.
ErrorCountAfterTry(n) == 0

\* A threshold test that takes the first error for enough.
ReachedAnyErrorCount(n) == n >= 1

\* Line 137.
ReachedMinErrorCount(n) == n >= MIN_ERROR_COUNT

\* A check() that builds the header only after the trend branches.
StatusHeaderAfterTrend(seats, history, trend) ==
    IF trend # "NEW_LOW" THEN NO_SEATS
    ELSE <<Header>>
         \o (IF Len(history) = 0 THEN << >>
             ELSE <<Callout(calculateTotalPrice(seats[1]))>>)
         \o Readout(seats)

\* A push that skips a price equal to the last one recorded.
PushPriceIfChanged(history, lowestPrice) ==
    IF Len(history) > 0 /\ history[Len(history)] = lowestPrice THEN history
    ELSE Append(history, lowestPrice)

\* Lines 168 and 173: pricesSeen.push(lowestPrice).
PushPrice(history, lowestPrice) == Append(history, lowestPrice)

\* A check() without line 209.
LastSentNotRecorded(last, t) == last

\* Line 209: LAST_TEXT_SENT_AT = Date.now(), before the send is awaited.
LastSentAtDispatch(last, t) == t

\* A check() that resets LAST_TEXT_SENT_AT when the send has failed.
LastSentRolledBack(last, ok) == IF ok THEN last ELSE 0

\* Lines 211-215: nothing follows the awaited send, whatever its result.
LastSentAfterSend(last, ok) == last

\* Lines 160-199: the status text of a tick with seats.
StatusWithSeats(seats, history, trend) ==
    IF trend # "NEW_LOW" THEN <<Header>>
    ELSE <<Header>>
         \o (IF Len(history) = 0 THEN << >>
             ELSE <<Callout(calculateTotalPrice(seats[1]))>>)
         \o Readout(seats)

\* Lines 88-92: check() is called and runs up to the await of the fetch.
Start(c) ==
    /\ pc[c] = "idle"
    /\ prevStatus' = getStatusMessage
    /\ lastRead' = NoRead
    /\ AVAILABLE_SEATS' = << >>
    /\ STATUS_MESSAGE' = StatusAtStart(STATUS_MESSAGE)
    /\ ERROR' = ErrorAtStart(ERROR)
    /\ pc' = [pc EXCEPT ![c] = "fetch"]
    /\ UNCHANGED <<LAST_TEXT_SENT_AT, ERROR_COUNT, pricesSeen, now, sentAt,
                   tick, failStreak>>

\* Line 92: fetch() or res.json() rejects (no connection, a body that is
\* not JSON).  The await is outside the try block: check() rejects.
FetchRejects(c) ==
    /\ pc[c] = "fetch"
    /\ failStreak < MaxFails
    /\ pc' = [pc EXCEPT ![c] = "idle"]
    /\ tick' = [NewTick(tick) EXCEPT !.kind = "transport", !.completion = "threw"]
    /\ failStreak' = failStreak + 1
    /\ UNCHANGED <<AVAILABLE_SEATS, LAST_TEXT_SENT_AT, ERROR_COUNT, ERROR,
                   STATUS_MESSAGE, pricesSeen, now, sentAt, prevStatus, lastRead>>

\* Lines 143-211: from the reset of the counter to a return or to the
\* await of the send.  seats is AVAILABLE_SEATS as the try block left it,
\* n is ERROR_COUNT as the try block left it, listings are the validated
\* listings of the document (none when the try block threw).
AfterTry(c, kind, seats, n, listings) ==
    LET lowestPrice == calculateTotalPrice(seats[1])
        trend == Trend(pricesSeen, lowestPrice)
        done(t) == [NewTick(tick) EXCEPT
                        !.kind = kind, !.completion = "returned",
                        !.trend = t, !.first = (Len(pricesSeen) = 0),
                        !.appended = (t # "NONE"),
                        !.empty = (kind = "success" /\ Len(listings) = 0),
                        !.listings = listings]
    IN
    /\ AVAILABLE_SEATS' = seats
    /\ ERROR_COUNT' = ErrorCountAfterTry(n)
    /\ UNCHANGED <<ERROR, prevStatus, lastRead>>
    /\ IF Len(seats) = 0
       THEN \* lines 145-148
            /\ pc' = [pc EXCEPT ![c] = "idle"]
            /\ tick' = done("NONE")
            /\ UNCHANGED <<STATUS_MESSAGE, pricesSeen, LAST_TEXT_SENT_AT, now,
                           sentAt>>
       ELSE /\ Len(pricesSeen) < MaxHist
            /\ pricesSeen' = PushPrice(pricesSeen, lowestPrice)
            /\ STATUS_MESSAGE' = StatusWithSeats(seats, pricesSeen, trend)
            /\ IF trend # "NEW_LOW"
               THEN \* lines 179-194
                    /\ pc' = [pc EXCEPT ![c] = "idle"]
                    /\ tick' = done(trend)
                    /\ UNCHANGED <<LAST_TEXT_SENT_AT, now, sentAt>>
               ELSE IF SentRecently(now, LAST_TEXT_SENT_AT)
               THEN \* lines 202-207
                    /\ pc' = [pc EXCEPT ![c] = "idle"]
                    /\ tick' = [done(trend) EXCEPT !.throttled = TRUE]
                    /\ UNCHANGED <<LAST_TEXT_SENT_AT, now, sentAt>>
               ELSE \* lines 209-211; the second Date.now() may read later
                    \E d \in {0, ClockStep} :
                        /\ now + d <= EndOfClock
                        /\ now' = now + d
                        /\ LAST_TEXT_SENT_AT' =
                               LastSentAtDispatch(LAST_TEXT_SENT_AT, now + d)
                        /\ sentAt' = Append(sentAt, now + d)
                        /\ pc' = [pc EXCEPT ![c] = "send"]
                        /\ tick' = [done(trend) EXCEPT !.sent = TRUE,
                                                       !.completion = "running",
                                                       !.send = "pending"]

\* Lines 94-141 when the try block throws: nothing was assigned to
\* AVAILABLE_SEATS, the catch block counts the error and either returns
\* or falls through to line 143.
CaughtException(c) ==
    /\ pc[c] = "fetch"
    /\ failStreak < MaxFails
    /\ failStreak' = failStreak + 1
    /\ IF ReachedMinErrorCount(ERROR_COUNT + 1)
       THEN /\ ERROR_COUNT' = ERROR_COUNT + 1
            /\ ERROR' = TRUE
            /\ pc' = [pc EXCEPT ![c] = "idle"]
            /\ tick' = [NewTick(tick) EXCEPT !.kind = "exception",
                                             !.completion = "returned"]
            /\ UNCHANGED <<AVAILABLE_SEATS, LAST_TEXT_SENT_AT, STATUS_MESSAGE,
                           pricesSeen, now, sentAt, prevStatus, lastRead>>
       ELSE AfterTry(c, "exception", AVAILABLE_SEATS, ERROR_COUNT + 1, << >>)

\* Lines 94-211 when the document passes the schema and nothing throws.
ParseSucceeds(c, doc) ==
    /\ pc[c] = "fetch"
    /\ safeParse(doc).success
    /\ failStreak' = 0
    /\ AfterTry(c, "success", Qualifying(safeParse(doc).data.listings),
                ERROR_COUNT, safeParse(doc).data.listings)

\* Lines 95-101: the document fails the schema; check() returns.
ValidationFails(c, doc) ==
    /\ pc[c] = "fetch"
    /\ failStreak < MaxFails
    /\ ~safeParse(doc).success
    /\ pc' = [pc EXCEPT ![c] = "idle"]
    /\ tick' = [NewTick(tick) EXCEPT !.kind = "validation", !.completion = "returned"]
    /\ failStreak' = failStreak + 1
    /\ UNCHANGED <<AVAILABLE_SEATS, LAST_TEXT_SENT_AT, ERROR_COUNT, ERROR,
                   STATUS_MESSAGE, pricesSeen, now, sentAt, prevStatus, lastRead>>

\* Lines 211-215: the awaited sendPushAlert settles and check() returns.
SendSettles(c, ok) ==
    /\ pc[c] = "send"
    /\ pc' = [pc EXCEPT ![c] = "idle"]
    /\ tick' = [tick EXCEPT !.completion = "returned",
                            !.send = IF ok THEN "ok" ELSE "failed"]
    /\ LAST_TEXT_SENT_AT' = LastSentAfterSend(LAST_TEXT_SENT_AT, ok)
    /\ UNCHANGED <<AVAILABLE_SEATS, ERROR_COUNT, ERROR,
                   STATUS_MESSAGE, pricesSeen, now, sentAt, failStreak,
                   prevStatus, lastRead>>

\* Lines 65-67: a caller reads the status, at any time.
GetStatus ==
    /\ lastRead' = getStatusMessage
    /\ UNCHANGED <<AVAILABLE_SEATS, LAST_TEXT_SENT_AT, ERROR_COUNT, ERROR,
                   STATUS_MESSAGE, pricesSeen, pc, now, sentAt, tick,
                   failStreak, prevStatus>>

\* Time passes.
AdvanceClock ==
    /\ now < EndOfClock
    /\ now' = now + ClockStep
    /\ UNCHANGED <<AVAILABLE_SEATS, LAST_TEXT_SENT_AT, ERROR_COUNT, ERROR,
                   STATUS_MESSAGE, pricesSeen, pc, sentAt, tick, failStreak,
                   prevStatus, lastRead>>

\* The scheduler calls check() only when the previous call has completed.
Next ==
    \/ \E c \in SequentialCalls : NoneRunning /\ Start(c)
    \/ \E c \in SequentialCalls : FetchRejects(c)
    \/ \E c \in SequentialCalls : CaughtException(c)
    \/ \E c \in SequentialCalls, doc \in Documents : ValidationFails(c, doc)
    \/ \E c \in SequentialCalls, doc \in Documents : ParseSucceeds(c, doc)
    \/ \E c \in SequentialCalls, ok \in BOOLEAN : SendSettles(c, ok)
    \/ GetStatus
    \/ AdvanceClock

Spec == Init /\ [][Next]_vars

\* Sequential ticks over the snapshots for the filter and the sort.
NextFilter ==
    \/ \E c \in SequentialCalls : NoneRunning /\ Start(c)
    \/ \E c \in SequentialCalls, doc \in FilterDocuments : ParseSucceeds(c, doc)
    \/ \E c \in SequentialCalls, ok \in BOOLEAN : SendSettles(c, ok)

SpecFilter == Init /\ [][NextFilter]_vars

\* The snapshots of overlapping calls: no listing, or one.
OverlapDocuments == {doc \in ValidDocuments : Len(doc.listings) <= 1}

\* A scheduler that does not wait: a call of check() may start while
\* another one is suspended on its fetch or on its send.  A call whose fetch
\* rejects or whose document fails the schema leaves the run state as a call
\* over an empty snapshot does, so these two are left to the empty snapshot;
\* a call that throws inside the try block goes on with the listings that
\* another call has left in AVAILABLE_SEATS.
NextOverlap ==
    \/ \E c \in Calls : Start(c)
    \/ \E c \in Calls : CaughtException(c)
    \/ \E c \in Calls, doc \in OverlapDocuments : ParseSucceeds(c, doc)
    \/ \E c \in Calls, ok \in BOOLEAN : SendSettles(c, ok)
    \/ AdvanceClock

SpecOverlap == Init /\ [][NextOverlap]_vars

----------------------------------------------------------------------------
(* Properties.                                                             *)

\* A call of check() has completed and none is running.
Completed == NoneRunning /\ tick.kind # "none"

\* The last tick failed: its fetch, its validation or its processing.
Failed == tick.kind \in {"transport", "validation", "exception"}

\* This step resumes a call of check() after its fetch.
Resumed == \E c \in Calls : pc[c] = "fetch" /\ pc'[c] # "fetch"

\* C1: after MIN_ERROR_COUNT consecutive failed ticks getStatusMessage()
\* returns "ERROR", and after fewer consecutive failures it does not.
C1_ErrorAfterMinErrorCountFailures ==
    Completed =>
        /\ failStreak >= MIN_ERROR_COUNT => getStatusMessage = ERROR_TEXT
        /\ (Failed /\ failStreak < MIN_ERROR_COUNT)
               => getStatusMessage # ERROR_TEXT

C3_ErrorPersistsWhileFailing ==
    (Completed /\ failStreak > MIN_ERROR_COUNT) => getStatusMessage = ERROR_TEXT

\* C4: after a successful tick ERROR_COUNT is 0 and ERROR is false, so
\* getStatusMessage() does not return "ERROR".
C4_SuccessClearsErrors ==
    tick.kind = "success" =>
        /\ ERROR_COUNT = 0
        /\ ERROR = FALSE
        /\ getStatusMessage # ERROR_TEXT

\* A successful tick has completed whose listings all failed the filter.
C4_Witness ==
    /\ Completed
    /\ tick.kind = "success"
    /\ AVAILABLE_SEATS = << >>
    /\ ~tick.empty

\* C5: no call of check() ends by throwing to its caller.
C5_NoTickThrows == tick.completion # "threw"

\* C6: a tick calls the notifier if and only if its qualifying list is not
\* empty, its lowest price is a new low (the history was empty or the price
\* is strictly below the minimum of the history) and the last text is at
\* least TEXT_MAX_FREQUENCY_MINS old.
C6_NotifyIffNewLowAndDue ==
    [][(sentAt' # sentAt) <=>
           /\ Resumed
           /\ AVAILABLE_SEATS' # << >>
           /\ \/ pricesSeen = << >>
              \/ calculateTotalPrice(AVAILABLE_SEATS'[1]) < Min(pricesSeen)
           /\ now - LAST_TEXT_SENT_AT >= TEXT_MAX_FREQUENCY_MINS]_vars

\* A tick that was not the first with seats has called the notifier.
C6_Witness == tick.sent /\ Len(pricesSeen) > 1

\* C7: a new-low tick less than TEXT_MAX_FREQUENCY_MINS after the last text
\* sends nothing and leaves LAST_TEXT_SENT_AT alone, and any two texts are at
\* least TEXT_MAX_FREQUENCY_MINS apart.
C7_Throttling ==
    [][/\ (/\ Resumed
           /\ AVAILABLE_SEATS' # << >>
           /\ \/ pricesSeen = << >>
              \/ calculateTotalPrice(AVAILABLE_SEATS'[1]) < Min(pricesSeen)
           /\ now - LAST_TEXT_SENT_AT < TEXT_MAX_FREQUENCY_MINS)
          => (sentAt' = sentAt /\ LAST_TEXT_SENT_AT' = LAST_TEXT_SENT_AT)
       /\ \A i \in 2..Len(sentAt') :
              sentAt'[i] - sentAt'[i - 1] >= TEXT_MAX_FREQUENCY_MINS]_vars

\* A new-low tick was throttled after two texts had been sent.
C7_Witness == Completed /\ tick.throttled /\ Len(sentAt) >= 2

\* C8: after a completed tick without the error flag, getStatusMessage()
\* returns "NO_SEATS" exactly when the tick's qualifying list is empty, and
\* a tick whose validated listing mapping is empty leaves pricesSeen alone
\* and sends nothing.
C8_NoSeatsIffNoQualifying ==
    [][/\ (Completed' /\ ~ERROR')
              => ((getStatusMessage' = NO_SEATS) <=> (AVAILABLE_SEATS' = << >>))
       /\ (Resumed /\ tick'.kind = "success" /\ tick'.empty)
              => /\ pricesSeen' = pricesSeen
                 /\ sentAt' = sentAt
                 /\ getStatusMessage' = NO_SEATS]_vars

\* A tick with qualifying listings whose price was no new low has completed.
C8_Witness ==
    /\ Completed
    /\ AVAILABLE_SEATS # << >>
    /\ tick.trend \in {"DECREASED", "INCREASED", "UNCHANGED"}

\* C9: a getStatusMessage() call made while a tick runs returns the value
\* left by the tick before or the value the running tick leaves.
C9_ReadsSeeCommittedStatus ==
    Completed => lastRead \in {NoRead, prevStatus, getStatusMessage}

\* The layout of a status text: a header, a callout when withCallout, then
\* one line per seat, in order.
HasLayout(msg, seats, withCallout, lowestPrice) ==
    LET k == IF withCallout THEN 2 ELSE 1
    IN /\ Len(msg) = k + Len(seats)
       /\ msg[1].kind = "header"
       /\ withCallout =>
              (msg[2].kind = "callout" /\ msg[2].price = fmtPrice(lowestPrice))
       /\ \A i \in 1..Len(seats) :
              /\ msg[k + i].kind = "line"
              /\ msg[k + i].section = seats[i].section
              /\ msg[k + i].row = seats[i].row
              /\ msg[k + i].each = fmtPrice(calculateTotalPrice(seats[i]))
              /\ msg[k + i].total =
                     fmtPrice(calculateTotalPrice(seats[i]) * SEATS_TOGETHER)

\* C10: every new-low tick, the first tick with seats included, leaves a
\* status of the header, the "new lowest price" callout and one line per
\* qualifying listing, in the order of the list.
C10_NewLowStatusLayout ==
    (Completed /\ tick.kind = "success" /\ tick.trend = "NEW_LOW")
        => HasLayout(STATUS_MESSAGE, AVAILABLE_SEATS, TRUE,
                     pricesSeen[Len(pricesSeen)])

\* C10, amended: a new-low tick whose history was not empty leaves the
\* header, the callout and one line per qualifying listing, in order; the
\* first tick with seats leaves the header and the lines, without a callout.
C10_NewLowStatusLayoutAmended ==
    (Completed /\ tick.kind = "success" /\ tick.trend = "NEW_LOW")
        => HasLayout(STATUS_MESSAGE, AVAILABLE_SEATS, Len(pricesSeen) > 1,
                     pricesSeen[Len(pricesSeen)])

\* A new-low tick with two qualifying listings and a history has completed.
C10_Witness ==
    /\ Completed /\ tick.kind = "success" /\ tick.trend = "NEW_LOW"
    /\ Len(pricesSeen) > 1
    /\ Len(AVAILABLE_SEATS) = 2

\* This step resumes a tick that has seats at a new lowest price.
ResumedAtNewLow ==
    /\ Resumed
    /\ AVAILABLE_SEATS' # << >>
    /\ \/ pricesSeen = << >>
       \/ calculateTotalPrice(AVAILABLE_SEATS'[1]) < Min(pricesSeen)

\* C11: a dispatch sets LAST_TEXT_SENT_AT to the time of the dispatch; when
\* the send fails LAST_TEXT_SENT_AT keeps that time, and the next new-low
\* tick inside the interval is suppressed.
C11_FailedSendKeepsLastSent ==
    [][/\ (sentAt' # sentAt) => LAST_TEXT_SENT_AT' = now'
       /\ (tick'.send = "failed")
              => LAST_TEXT_SENT_AT' = sentAt'[Len(sentAt')]
       /\ (/\ tick.send = "failed"
           /\ ResumedAtNewLow
           /\ now - sentAt[Len(sentAt)] < TEXT_MAX_FREQUENCY_MINS)
              => (sentAt' = sentAt /\ LAST_TEXT_SENT_AT' = LAST_TEXT_SENT_AT)]_vars

\* A new-low tick was throttled after the last send had failed.
C11_Witness == Completed /\ tick.throttled /\ tick.send = "failed"

\* C12: ERROR_COUNT grows by one on every failed tick and only a successful
\* tick resets it, so after k consecutive failed ticks it equals k.
C12_ErrorCountCountsFailures == Completed => ERROR_COUNT = failStreak

\* This step resumes a tick that has at least one qualifying listing.
ResumedWithSeats == Resumed /\ AVAILABLE_SEATS' # << >>

\* C13: pricesSeen is append-only: its entries stay, a tick with a
\* qualifying listing appends exactly one entry and nothing else changes it.
C13_PricesSeenAppendOnly ==
    [][/\ Len(pricesSeen') >= Len(pricesSeen)
       /\ SubSeq(pricesSeen', 1, Len(pricesSeen)) = pricesSeen
       /\ Len(pricesSeen') <= Len(pricesSeen) + 1
       /\ ResumedWithSeats => Len(pricesSeen') = Len(pricesSeen) + 1
       /\ ~ResumedWithSeats => pricesSeen' = pricesSeen]_vars

\* A tick whose price equals the last one has appended its entry.
C13_Witness == Completed /\ tick.trend = "UNCHANGED" /\ Len(pricesSeen) >= 2

\* The class of price p against history h, as the claim words it.
ClassOf(h, p) ==
    IF h = << >> \/ \A i \in 1..Len(h) : p < h[i] THEN "NEW_LOW"
    ELSE IF p < h[Len(h)] THEN "DECREASED"
    ELSE IF p > h[Len(h)] THEN "INCREASED"
    ELSE "UNCHANGED"

\* C14: a tick with qualifying listings is classified against the history
\* before its push: NEW_LOW when the history is empty or the price is below
\* all of it, else DECREASED, INCREASED or UNCHANGED against the last entry;
\* a price equal to the historic minimum is never NEW_LOW; [500, 480, 480]
\* with 470 is NEW_LOW and [500, 480] with 490 is INCREASED.
C14_TrendClassification ==
    [][/\ ResumedWithSeats =>
              LET p == calculateTotalPrice(AVAILABLE_SEATS'[1])
              IN /\ tick'.trend = ClassOf(pricesSeen, p)
                 /\ (\E i \in 1..Len(pricesSeen) : pricesSeen[i] = p)
                        => tick'.trend # "NEW_LOW"
       /\ Trend(<<50000, 48000, 48000>>, 47000) = "NEW_LOW"
       /\ Trend(<<50000, 48000>>, 49000) = "INCREASED"]_vars

\* A tick whose price equals the historic minimum, below the last price.
C14_Witness ==
    /\ Completed /\ tick.trend = "DECREASED"
    /\ Len(pricesSeen) >= 3
    /\ pricesSeen[Len(pricesSeen)] = Min(SubSeq(pricesSeen, 1, Len(pricesSeen) - 1))

\* s starts with p.
HasPrefix(s, p) == Len(p) <= Len(s) /\ SubSeq(s, 1, Len(p)) = p

\* The four criteria of the configuration, for one listing.
MeetsCriteria(l) ==
    /\ Len(l.seats) >= SEATS_TOGETHER
    /\ SEATS_TOGETHER \in {l.lots[i] : i \in 1..Len(l.lots)}
    /\ \/ \E k \in 1..Len(SECTIONS_REGEX) : HasPrefix(l.section, SECTIONS_REGEX[k])
       \/ \E k \in 1..Len(SECTION_GROUP_NAMES) :
              HasPrefix(l.section_group, SECTION_GROUP_NAMES[k])
    /\ calculateTotalPrice(l) <= MAX_ALL_IN_PRICE_PER_SEAT * 100

\* A successful tick has completed.
Succeeded == Completed /\ tick.kind = "success"

InSeq(l, s) == \E i \in 1..Len(s) : s[i] = l

IndexIn(l, s) == CHOOSE i \in 1..Len(s) : s[i] = l

\* C16: after a successful tick the qualifying list holds the first
\* MAX_RETURN_LIST listings of the stable ascending sort of the listings
\* that meet the criteria: prices do not decrease, ties keep the order of
\* the snapshot, the length is the smaller of the two counts, and no
\* listing left out would sort before one that is kept.
C16_SortedStableTruncated ==
    Succeeded =>
        LET S == tick.listings
            Q == AVAILABLE_SEATS
            passing == {i \in 1..Len(S) : MeetsCriteria(S[i])}
            kept == {IndexIn(Q[k], S) : k \in 1..Len(Q)}
            price(l) == calculateTotalPrice(l)
        IN /\ \A k \in 1..Len(Q) : InSeq(Q[k], S)
           /\ kept \subseteq passing
           /\ Cardinality(kept) = Len(Q)
           /\ Len(Q) = IF Cardinality(passing) < MAX_RETURN_LIST
                       THEN Cardinality(passing) ELSE MAX_RETURN_LIST
           /\ \A j, k \in 1..Len(Q) :
                  j < k => /\ price(Q[j]) <= price(Q[k])
                           /\ price(Q[j]) = price(Q[k])
                                  => IndexIn(Q[j], S) < IndexIn(Q[k], S)
           /\ \A i \in passing \ kept : \A k \in 1..Len(Q) :
                  /\ price(S[i]) >= price(Q[k])
                  /\ price(S[i]) = price(Q[k]) => i > IndexIn(Q[k], S)

\* A tick over more listings than MAX_RETURN_LIST has cut its list.
C16_Witness ==
    /\ Succeeded
    /\ Len(tick.listings) > MAX_RETURN_LIST
    /\ Len(AVAILABLE_SEATS) = MAX_RETURN_LIST

PassingPrices(s) ==
    {calculateTotalPrice(s[i]) : i \in {j \in 1..Len(s) : MeetsCriteria(s[j])}}

\* C18: every entry of pricesSeen is the lowest price among the listings of
\* its tick's snapshot that meet the criteria, the cut of the list never
\* drops it, and so no entry is above the maximum price.
C18_EntriesAreLowestPassingPrice ==
    [][/\ ResumedWithSeats =>
              LET p == pricesSeen'[Len(pricesSeen')]
              IN /\ p \in PassingPrices(tick'.listings)
                 /\ \A q \in PassingPrices(tick'.listings) : p <= q
       /\ \A i \in 1..Len(pricesSeen') :
              pricesSeen'[i] <= MAX_ALL_IN_PRICE_PER_SEAT * 100]_vars

\* The tick over the twelve listings has recorded the price of the last
\* one, the cheapest.
C18_Witness ==
    /\ Succeeded /\ tick.appended
    /\ tick.listings = BulkListings
    /\ pricesSeen[Len(pricesSeen)] = calculateTotalPrice(BulkListings[Len(BulkListings)])

\* C19: also when calls of check() overlap, any two texts are dispatched
\* at least TEXT_MAX_FREQUENCY_MINS apart.
C19_OverlapKeepsInterval ==
    \A i \in 1..Len(sentAt) : \A j \in 1..Len(sentAt) :
        i < j => sentAt[j] - sentAt[i] >= TEXT_MAX_FREQUENCY_MINS

\* While one call awaits its send, another call has resumed with a new
\* lowest price and was throttled.
C19_Witness ==
    /\ \E c \in Calls : pc[c] = "send"
    /\ \E c \in Calls : pc[c] = "idle"
    /\ tick.throttled
    /\ Len(pricesSeen) >= 2

====
